---- MODULE Spec2Model ----
(***************************************************************************)
(* examples/bpti/prod/bpti-restart.py: a GCMC/MD production run of BPTI    *)
(* restarted from a previous simulation, followed by the post-processing   *)
(* of its trajectory.                                                      *)
(*                                                                         *)
(* The script is one straight line of statements and one for loop.  Each   *)
(* statement is an action; pc names the statement that runs next.  Every   *)
(* statement calls into OpenMM or grand, and every such call either        *)
(* returns or raises.  The script holds no try/except, so an exception     *)
(* ends the interpreter (pc = "aborted").                                  *)
(***************************************************************************)
EXTENDS Integers, Sequences, FiniteSets, TLC

VARIABLES
    pc,         \* the statement that runs next, or "done" / "aborted"
    failedAt,   \* the statement whose exception ended the run, or "none"
    error,      \* "none", "fault" (a library call raised) or "IndexError"
    pdb,        \* PDBFile('bpti-ghosts.pdb'): the topology and its box
    rst7,       \* AmberInpcrdFile('bpti-rst.rst7'): the restart state
    ghosts,     \* read_ghosts_from_file(...): one ghost set per frame
    loaded,     \* the script variables bound so far
    ctx,        \* simulation.context
    mover,      \* gcmc_mover
    i,          \* iterations of the for loop started so far
    calls,      \* how many times each operation has been invoked
    initArgs,   \* the ghost set of every initialise call, in order
    trj,        \* the script variable trj
    stages,     \* the post-processing calls made, in order
    fs,         \* who last wrote each file
    reads,      \* <<statement, file>> for every file a call was given to read
    writes      \* <<statement, file>> for every file a call was given to write

vars == <<pc, failedAt, error, pdb, rst7, ghosts, loaded, ctx, mover, i,
          calls, initArgs, trj, stages, fs, reads, writes>>

----------------------------------------------------------------------------
(* Bounds of the inputs *)

\* the longest ghost history read from the ghost file
MaxFrames == 2

\* the water residues that can be ghosts
Waters == {"w1", "w2"}

\* coordinate sets, velocity sets and box vectors a file can hold
Positions == {"x1"}
Velocities == {"v1"}
Boxes == {"b1", "b2"}

GhostSets == SUBSET Waters

Histories == UNION {[1..n -> GhostSets] : n \in 0..MaxFrames}

----------------------------------------------------------------------------
(* Literals of the script *)

NCycles == 100
MDStepsPerCycle == 1000
MovesPerCycle == 100

TopologyFile == "bpti-ghosts.pdb"
RestartFile == "bpti-rst.rst7"
GhostHistoryFile == "gcmc-ghost-wats.txt"

SamplerGhostFile == "gcmc-ghost-wats2.txt"
SamplerLog == "bpti-gcmc2.log"
SamplerDcd == "bpti-raw2.dcd"
SamplerRst == "bpti-rst2.rst7"

InputFiles == {TopologyFile, RestartFile, GhostHistoryFile}
SamplerFiles == {SamplerGhostFile, SamplerLog, SamplerDcd, SamplerRst}

AllFiles == InputFiles \cup SamplerFiles
            \cup {"bpti-gcmc2.dcd", "gcmc_sphere2.pdb", "bpti-clusts.pdb"}

Operations == {"initialise", "step", "move", "report", "shift_ghost_waters",
               "recentre_traj", "align_traj", "write_sphere_traj",
               "cluster_waters"}

\* the statements in script order (the loop body appears once)
Script == <<"load_pdb", "load_rst", "read_ghosts", "create_system",
            "create_sampler", "create_integrator", "get_platform",
            "create_simulation", "set_positions", "set_velocities", "set_box",
            "initialise", "add_reporter", "for", "step", "move", "report",
            "shift", "recentre", "align", "write_sphere", "cluster", "done">>

Index(l) == CHOOSE k \in 1..Len(Script) : Script[k] = l

----------------------------------------------------------------------------
(* Artifacts: a trajectory is either a file or an object in memory *)

NoArtifact == [kind |-> "none", id |-> "none"]
File(name) == [kind |-> "file", id |-> name]
InMemory(stage) == [kind |-> "memory", id |-> stage]

----------------------------------------------------------------------------
Init ==
    /\ pc = "load_pdb"
    /\ failedAt = "none"
    /\ error = "none"
    /\ pdb = [box |-> "none"]
    /\ rst7 = [positions |-> "none", velocities |-> "none", box |-> "none"]
    /\ ghosts = <<>>
    /\ loaded = {}
    /\ ctx = [built |-> FALSE, positions |-> "none", velocities |-> "none",
              box |-> "none", applied |-> {}, mdSteps |-> 0]
    /\ mover = [built |-> FALSE, ghostFile |-> "none", log |-> "none",
                dcd |-> "none", rst |-> "none", initialised |-> FALSE,
                seed |-> {}, moves |-> 0]
    /\ i = 0
    /\ calls = [o \in Operations |-> 0]
    /\ initArgs = <<>>
    /\ trj = NoArtifact
    /\ stages = <<>>
    /\ fs = [f \in AllFiles |-> IF f \in InputFiles THEN "previous run"
                                ELSE "absent"]
    /\ reads = {}
    /\ writes = {}

----------------------------------------------------------------------------
(* Control flow *)

\* a changed copy of Succ: the loop body reports before it moves
SuccReportBeforeMove(stmt) ==
    CASE stmt = "step" -> "report"
      [] stmt = "report" -> "move"
      [] stmt = "move" -> "for"
      [] OTHER -> Script[Index(stmt) + 1]

\* a changed copy of Succ: the sampler is never initialised
SuccSkipInitialise(stmt) ==
    CASE stmt = "set_box" -> "add_reporter"
      [] stmt = "report" -> "for"
      [] OTHER -> Script[Index(stmt) + 1]

\* the statement that follows stmt: the next one in the text, and the loop
\* header after the last statement of the loop body
Succ(stmt) ==
    IF stmt = "report" THEN "for" ELSE Script[Index(stmt) + 1]

\* a changed copy of LoopAgain: one iteration too many
LoopAgainOffByOne(n) == n <= NCycles

\* for i in range(100): whether an iteration follows n started iterations
LoopAgain(n) == n < NCycles

\* a changed copy of Raise: the exception is swallowed and the script goes on
RaiseSwallowed(stmt, kind) ==
    /\ pc' = Succ(stmt)
    /\ failedAt' = stmt
    /\ error' = kind

\* an exception reaches the top level of the script: the interpreter exits
Raise(stmt, kind) ==
    /\ pc' = "aborted"
    /\ failedAt' = stmt
    /\ error' = kind

\* the statement returned: the next statement runs
Return(stmt) ==
    /\ pc' = Succ(stmt)
    /\ UNCHANGED <<failedAt, error>>

\* the call of op is made, whether it then returns or raises
Invoke(op) == calls' = [calls EXCEPT ![op] = @ + 1]

----------------------------------------------------------------------------
(* Loading the inputs *)

\* pdb = PDBFile('bpti-ghosts.pdb')
LoadPDB ==
    /\ pc = "load_pdb"
    /\ reads' = reads \cup {<<"load_pdb", TopologyFile>>}
    /\ \/ \E b \in Boxes :
            /\ pdb' = [box |-> b]
            /\ loaded' = loaded \cup {"pdb"}
            /\ Return("load_pdb")
       \/ /\ Raise("load_pdb", "fault")
          /\ UNCHANGED <<pdb, loaded>>
    /\ UNCHANGED <<rst7, ghosts, ctx, mover, i, calls, trj, stages, fs,
                   writes, initArgs>>

\* rst7 = AmberInpcrdFile('bpti-rst.rst7')
LoadRst ==
    /\ pc = "load_rst"
    /\ reads' = reads \cup {<<"load_rst", RestartFile>>}
    /\ \/ \E x \in Positions, v \in Velocities, b \in Boxes :
            /\ rst7' = [positions |-> x, velocities |-> v, box |-> b]
            /\ loaded' = loaded \cup {"rst7"}
            /\ Return("load_rst")
       \/ /\ Raise("load_rst", "fault")
          /\ UNCHANGED <<rst7, loaded>>
    /\ UNCHANGED <<pdb, ghosts, ctx, mover, i, calls, trj, stages, fs, writes,
                   initArgs>>

\* ghosts = grand.utils.read_ghosts_from_file('gcmc-ghost-wats.txt'):
\* the list holds the ghost set of every frame the file records, in order
ReadGhosts ==
    /\ pc = "read_ghosts"
    /\ reads' = reads \cup {<<"read_ghosts", GhostHistoryFile>>}
    /\ \/ \E h \in Histories :
            /\ ghosts' = h
            /\ loaded' = loaded \cup {"ghosts"}
            /\ Return("read_ghosts")
       \/ /\ Raise("read_ghosts", "fault")
          /\ UNCHANGED <<ghosts, loaded>>
    /\ UNCHANGED <<pdb, rst7, ctx, mover, i, calls, trj, stages, fs, writes,
                   initArgs>>

----------------------------------------------------------------------------
(* Building the system, the sampler and the simulation *)

\* ff = ForceField(...); system = ff.createSystem(pdb.topology, ...)
CreateSystem ==
    /\ pc = "create_system"
    /\ \/ /\ loaded' = loaded \cup {"ff", "system", "ref_atoms"}
          /\ Return("create_system")
       \/ /\ Raise("create_system", "fault")
          /\ UNCHANGED loaded
    /\ UNCHANGED <<pdb, rst7, ghosts, ctx, mover, i, calls, trj, stages, fs,
                   reads, writes, initArgs>>

\* gcmc_mover = grand.samplers.StandardGCMCSphereSampler(...)
CreateSampler ==
    /\ pc = "create_sampler"
    /\ \/ /\ mover' = [mover EXCEPT !.built = TRUE,
                                    !.ghostFile = SamplerGhostFile,
                                    !.log = SamplerLog,
                                    !.dcd = SamplerDcd,
                                    !.rst = SamplerRst]
          /\ loaded' = loaded \cup {"gcmc_mover"}
          /\ Return("create_sampler")
       \/ /\ Raise("create_sampler", "fault")
          /\ UNCHANGED <<mover, loaded>>
    /\ UNCHANGED <<pdb, rst7, ghosts, ctx, i, calls, trj, stages, fs, reads,
                   writes, initArgs>>

\* integrator = BAOABIntegrator(298*kelvin, 1.0/picosecond, 0.002*picoseconds)
CreateIntegrator ==
    /\ pc = "create_integrator"
    /\ \/ /\ loaded' = loaded \cup {"integrator"}
          /\ Return("create_integrator")
       \/ /\ Raise("create_integrator", "fault")
          /\ UNCHANGED loaded
    /\ UNCHANGED <<pdb, rst7, ghosts, ctx, mover, i, calls, trj, stages, fs,
                   reads, writes, initArgs>>

\* platform = Platform.getPlatformByName('CUDA'); platform.setProperty...
GetPlatform ==
    /\ pc = "get_platform"
    /\ \/ /\ loaded' = loaded \cup {"platform"}
          /\ Return("get_platform")
       \/ /\ Raise("get_platform", "fault")
          /\ UNCHANGED loaded
    /\ UNCHANGED <<pdb, rst7, ghosts, ctx, mover, i, calls, trj, stages, fs,
                   reads, writes, initArgs>>

\* simulation = Simulation(pdb.topology, system, integrator, platform):
\* a fresh context has no positions and the box of the system, which
\* createSystem took from the topology
CreateSimulation ==
    /\ pc = "create_simulation"
    /\ \/ /\ ctx' = [ctx EXCEPT !.built = TRUE, !.box = pdb.box]
          /\ loaded' = loaded \cup {"simulation"}
          /\ Return("create_simulation")
       \/ /\ Raise("create_simulation", "fault")
          /\ UNCHANGED <<ctx, loaded>>
    /\ UNCHANGED <<pdb, rst7, ghosts, mover, i, calls, trj, stages, fs, reads,
                   writes, initArgs>>

----------------------------------------------------------------------------
(* Applying the restart state *)

\* simulation.context.setPositions(rst7.getPositions())
SetPositions ==
    /\ pc = "set_positions"
    /\ \/ /\ ctx' = [ctx EXCEPT !.positions = rst7.positions,
                                !.applied = @ \cup {"positions"}]
          /\ Return("set_positions")
       \/ /\ Raise("set_positions", "fault")
          /\ UNCHANGED ctx
    /\ UNCHANGED <<pdb, rst7, ghosts, loaded, mover, i, calls, trj, stages,
                   fs, reads, writes, initArgs>>

\* simulation.context.setVelocities(rst7.getVelocities())
SetVelocities ==
    /\ pc = "set_velocities"
    /\ \/ /\ ctx' = [ctx EXCEPT !.velocities = rst7.velocities,
                                !.applied = @ \cup {"velocities"}]
          /\ Return("set_velocities")
       \/ /\ Raise("set_velocities", "fault")
          /\ UNCHANGED ctx
    /\ UNCHANGED <<pdb, rst7, ghosts, loaded, mover, i, calls, trj, stages,
                   fs, reads, writes, initArgs>>

\* the argument of setPeriodicBoxVectors: *pdb.topology.getPeriodicBoxVectors()
BoxVectorsArg == pdb.box

\* simulation.context.setPeriodicBoxVectors(...)
SetBox ==
    /\ pc = "set_box"
    /\ \/ /\ ctx' = [ctx EXCEPT !.box = BoxVectorsArg,
                                !.applied = @ \cup {"box"}]
          /\ Return("set_box")
       \/ /\ Raise("set_box", "fault")
          /\ UNCHANGED ctx
    /\ UNCHANGED <<pdb, rst7, ghosts, loaded, mover, i, calls, trj, stages,
                   fs, reads, writes, initArgs>>

----------------------------------------------------------------------------
(* Initialising the sampler *)

\* a changed copy of LastEntry: the first frame instead of the last
LastEntryFirst(seq) ==
    [raised |-> Len(seq) = 0,
     value |-> IF Len(seq) = 0 THEN {} ELSE seq[1]]

\* a changed copy of LastEntry: an empty history gives the empty ghost set
LastEntryDefault(seq) ==
    [raised |-> FALSE,
     value |-> IF Len(seq) = 0 THEN {} ELSE seq[Len(seq)]]

\* ghosts[-1]: the last element of a list; IndexError on an empty list
LastEntry(seq) ==
    [raised |-> Len(seq) = 0,
     value |-> IF Len(seq) = 0 THEN {} ELSE seq[Len(seq)]]

\* gcmc_mover.initialise(simulation.context, ghosts[-1]): the argument is
\* evaluated first, and initialise is invoked only if that did not raise
Initialise ==
    /\ pc = "initialise"
    /\ LET arg == LastEntry(ghosts) IN
         \/ /\ arg.raised
            /\ Raise("initialise", "IndexError")
            /\ UNCHANGED <<mover, calls, initArgs>>
         \/ /\ ~arg.raised
            /\ Invoke("initialise")
            /\ initArgs' = Append(initArgs, arg.value)
            /\ \/ /\ mover' = [mover EXCEPT !.initialised = TRUE,
                                            !.seed = arg.value]
                  /\ Return("initialise")
               \/ /\ Raise("initialise", "fault")
                  /\ UNCHANGED mover
    /\ UNCHANGED <<pdb, rst7, ghosts, loaded, ctx, i, trj, stages, fs, reads,
                   writes>>

\* simulation.reporters.append(StateDataReporter(stdout, 1000, ...));
\* print("\nProduction (continued)")
AddReporter ==
    /\ pc = "add_reporter"
    /\ \/ /\ loaded' = loaded \cup {"reporter"}
          /\ Return("add_reporter")
       \/ /\ Raise("add_reporter", "fault")
          /\ UNCHANGED loaded
    /\ UNCHANGED <<pdb, rst7, ghosts, ctx, mover, i, calls, trj, stages, fs,
                   reads, writes, initArgs>>

----------------------------------------------------------------------------
(* The run loop *)

\* for i in range(100): the next iteration starts, or the loop is left
For ==
    /\ pc = "for"
    /\ IF LoopAgain(i)
         THEN /\ i' = i + 1
              /\ pc' = Succ("for")
         ELSE /\ i' = i
              /\ pc' = "shift"
    /\ UNCHANGED <<failedAt, error, pdb, rst7, ghosts, loaded, ctx, mover,
                   calls, trj, stages, fs, reads, writes, initArgs>>

\* simulation.step(1000): the integrator moves the context on; what the
\* positions and velocities become is the engine's business
Step ==
    /\ pc = "step"
    /\ Invoke("step")
    /\ \/ /\ ctx' = [ctx EXCEPT !.positions = "evolved",
                                !.velocities = "evolved",
                                !.mdSteps = @ + MDStepsPerCycle]
          /\ Return("step")
       \/ /\ Raise("step", "fault")
          /\ UNCHANGED ctx
    /\ UNCHANGED <<pdb, rst7, ghosts, loaded, mover, i, trj, stages, fs,
                   reads, writes, initArgs>>

\* gcmc_mover.move(simulation.context, 100): 100 insertion/deletion attempts;
\* which are accepted is the sampler's business
Move ==
    /\ pc = "move"
    /\ Invoke("move")
    /\ \/ /\ mover' = [mover EXCEPT !.moves = @ + MovesPerCycle]
          /\ Return("move")
       \/ /\ Raise("move", "fault")
          /\ UNCHANGED mover
    /\ UNCHANGED <<pdb, rst7, ghosts, loaded, ctx, i, trj, stages, fs, reads,
                   writes, initArgs>>

\* the files the sampler was constructed with
MoverFiles == {mover.ghostFile, mover.log, mover.dcd, mover.rst}

\* gcmc_mover.report(simulation): the sampler appends to its four files
Report ==
    /\ pc = "report"
    /\ Invoke("report")
    /\ writes' = writes \cup {<<"report", f>> : f \in MoverFiles}
    /\ \/ /\ fs' = [f \in AllFiles |-> IF f \in MoverFiles THEN "sampler"
                                       ELSE fs[f]]
          /\ Return("report")
       \/ /\ Raise("report", "fault")
          /\ UNCHANGED fs
    /\ UNCHANGED <<pdb, rst7, ghosts, loaded, ctx, mover, i, trj, stages,
                   reads, initArgs>>

----------------------------------------------------------------------------
(* Post-processing *)

\* what a grand.utils trajectory transform hands on: the file it was told to
\* write, or else the trajectory object it returns
StageOutput(stage, output) ==
    IF output = "none" THEN InMemory(stage) ELSE File(output)

StageCall(stage, traj, out) == [stage |-> stage, traj |-> traj, out |-> out]

\* a changed copy of ShiftGhostFileArg: the ghost file of the previous run
ShiftGhostFileArgPrevious == "gcmc-ghost-wats.txt"

\* shift_ghost_waters(ghost_file=...)
ShiftGhostFileArg == "gcmc-ghost-wats2.txt"

\* shift_ghost_waters(trajectory=...)
ShiftTrajectoryArg == "bpti-raw2.dcd"

\* trj = grand.utils.shift_ghost_waters(ghost_file=..., topology=...,
\*                                      trajectory=...)
Shift ==
    /\ pc = "shift"
    /\ Invoke("shift_ghost_waters")
    /\ reads' = reads \cup {<<"shift", ShiftGhostFileArg>>,
                            <<"shift", TopologyFile>>,
                            <<"shift", ShiftTrajectoryArg>>}
    /\ \/ /\ trj' = StageOutput("shift_ghost_waters", "none")
          /\ stages' = Append(stages, StageCall("shift_ghost_waters",
                                                File(ShiftTrajectoryArg), trj'))
          /\ Return("shift")
       \/ /\ Raise("shift", "fault")
          /\ stages' = Append(stages, StageCall("shift_ghost_waters",
                                                File(ShiftTrajectoryArg),
                                                NoArtifact))
          /\ UNCHANGED trj
    /\ UNCHANGED <<pdb, rst7, ghosts, loaded, ctx, mover, i, fs, writes,
                   initArgs>>

\* trj = grand.utils.recentre_traj(t=trj, resname='TYR', resid=10)
Recentre ==
    /\ pc = "recentre"
    /\ Invoke("recentre_traj")
    /\ \/ /\ trj' = StageOutput("recentre_traj", "none")
          /\ stages' = Append(stages, StageCall("recentre_traj", trj, trj'))
          /\ Return("recentre")
       \/ /\ Raise("recentre", "fault")
          /\ stages' = Append(stages, StageCall("recentre_traj", trj,
                                                NoArtifact))
          /\ UNCHANGED trj
    /\ UNCHANGED <<pdb, rst7, ghosts, loaded, ctx, mover, i, fs, reads,
                   writes, initArgs>>

\* align_traj(output=...)
AlignOutputArg == "bpti-gcmc2.dcd"

\* grand.utils.align_traj(t=trj, output='bpti-gcmc2.dcd')
Align ==
    /\ pc = "align"
    /\ Invoke("align_traj")
    /\ writes' = writes \cup {<<"align", AlignOutputArg>>}
    /\ \/ /\ fs' = [fs EXCEPT ![AlignOutputArg] = "align_traj"]
          /\ stages' = Append(stages,
                              StageCall("align_traj", trj,
                                        StageOutput("align_traj",
                                                    AlignOutputArg)))
          /\ Return("align")
       \/ /\ Raise("align", "fault")
          /\ stages' = Append(stages, StageCall("align_traj", trj, NoArtifact))
          /\ UNCHANGED fs
    /\ UNCHANGED <<pdb, rst7, ghosts, loaded, ctx, mover, i, trj, reads,
                   initArgs>>

\* write_sphere_traj(trajectory=...)
SphereTrajectoryArg == "bpti-gcmc2.dcd"

\* a changed copy of SphereOutputArg: the sphere is written over the aligned
\* trajectory
SphereOutputArgClash == "bpti-gcmc2.dcd"

\* write_sphere_traj(output=...)
SphereOutputArg == "gcmc_sphere2.pdb"

\* grand.utils.write_sphere_traj(radius=4.2, ref_atoms=ref_atoms,
\*     topology=..., trajectory=..., output=..., initial_frame=True)
WriteSphere ==
    /\ pc = "write_sphere"
    /\ Invoke("write_sphere_traj")
    /\ reads' = reads \cup {<<"write_sphere", TopologyFile>>,
                            <<"write_sphere", SphereTrajectoryArg>>}
    /\ writes' = writes \cup {<<"write_sphere", SphereOutputArg>>}
    /\ \/ /\ fs' = [fs EXCEPT ![SphereOutputArg] = "write_sphere_traj"]
          /\ stages' = Append(stages,
                              StageCall("write_sphere_traj",
                                        File(SphereTrajectoryArg),
                                        StageOutput("write_sphere_traj",
                                                    SphereOutputArg)))
          /\ Return("write_sphere")
       \/ /\ Raise("write_sphere", "fault")
          /\ stages' = Append(stages, StageCall("write_sphere_traj",
                                                File(SphereTrajectoryArg),
                                                NoArtifact))
          /\ UNCHANGED fs
    /\ UNCHANGED <<pdb, rst7, ghosts, loaded, ctx, mover, i, trj, initArgs>>

\* a changed copy of ClusterTrajectoryArg: the raw trajectory is clustered
ClusterTrajectoryArgRaw == "bpti-raw2.dcd"

\* cluster_waters(trajectory=...)
ClusterTrajectoryArg == "bpti-gcmc2.dcd"

\* cluster_waters(output=...)
ClusterOutputArg == "bpti-clusts.pdb"

\* grand.utils.cluster_waters(topology=..., trajectory=..., sphere_radius=4.2,
\*     ref_atoms=ref_atoms, cutoff=2.4, output=...)
Cluster ==
    /\ pc = "cluster"
    /\ Invoke("cluster_waters")
    /\ reads' = reads \cup {<<"cluster", TopologyFile>>,
                            <<"cluster", ClusterTrajectoryArg>>}
    /\ writes' = writes \cup {<<"cluster", ClusterOutputArg>>}
    /\ \/ /\ fs' = [fs EXCEPT ![ClusterOutputArg] = "cluster_waters"]
          /\ stages' = Append(stages,
                              StageCall("cluster_waters",
                                        File(ClusterTrajectoryArg),
                                        StageOutput("cluster_waters",
                                                    ClusterOutputArg)))
          /\ Return("cluster")
       \/ /\ Raise("cluster", "fault")
          /\ stages' = Append(stages, StageCall("cluster_waters",
                                                File(ClusterTrajectoryArg),
                                                NoArtifact))
          /\ UNCHANGED fs
    /\ UNCHANGED <<pdb, rst7, ghosts, loaded, ctx, mover, i, trj, initArgs>>

----------------------------------------------------------------------------
Next ==
    \/ LoadPDB
    \/ LoadRst
    \/ ReadGhosts
    \/ CreateSystem
    \/ CreateSampler
    \/ CreateIntegrator
    \/ GetPlatform
    \/ CreateSimulation
    \/ SetPositions
    \/ SetVelocities
    \/ SetBox
    \/ Initialise
    \/ AddReporter
    \/ For
    \/ Step
    \/ Move
    \/ Report
    \/ Shift
    \/ Recentre
    \/ Align
    \/ WriteSphere
    \/ Cluster

Spec == Init /\ [][Next]_vars

\* the interpreter runs the next statement whenever there is one
FairSpec == Init /\ [][Next]_vars /\ WF_vars(Next)

----------------------------------------------------------------------------
(* Vocabulary of the properties *)

LoopOps == {"step", "move", "report"}

PostStatements == {"shift", "recentre", "align", "write_sphere", "cluster"}

\* the five stages in the order the script calls them
StageOrder == <<"shift_ghost_waters", "recentre_traj", "align_traj",
                "write_sphere_traj", "cluster_waters">>

StageOps == {StageOrder[j] : j \in 1..Len(StageOrder)}

Terminated == pc \in {"done", "aborted"}

\* the for loop has been left by its own exit
LoopLeft == pc \in PostStatements \cup {"done"} \/ Len(stages) > 0

\* the files post-processing has written
PostFiles == {f \in AllFiles : fs[f] \in StageOps}

----------------------------------------------------------------------------
(* C1 *)

\* C1: at every point of the run #report <= #move <= #step <= #report + 1;
\* whenever k cycles are complete (the loop header is reached with i = k)
\* exactly k step, k move and k report calls have been made; and a step is
\* only made when every earlier cycle has been reported.
C1_LoopOrder ==
    /\ calls["report"] <= calls["move"]
    /\ calls["move"] <= calls["step"]
    /\ calls["step"] <= calls["report"] + 1
    /\ pc = "for" =>
         /\ calls["step"] = i
         /\ calls["move"] = i
         /\ calls["report"] = i
    /\ pc = "step" => calls["step"] = i - 1 /\ calls["report"] = i - 1
    /\ pc = "move" => calls["step"] = i /\ calls["move"] = i - 1
    /\ pc = "report" => calls["move"] = i /\ calls["report"] = i - 1

C1_Witness ==
    /\ pc = "for"
    /\ i = 3
    /\ calls["step"] = 3 /\ calls["move"] = 3 /\ calls["report"] = 3

----------------------------------------------------------------------------
(* C2 *)

\* C2: every initialise call is given the last entry of the loaded ghost
\* history, which is then non-empty, and the loaded history is never
\* reassigned once it is loaded.
C2_LastFrameSeeds ==
    /\ [](\A k \in 1..Len(initArgs) :
            /\ Len(ghosts) > 0
            /\ initArgs[k] = ghosts[Len(ghosts)])
    /\ [][("ghosts" \in loaded) => ghosts' = ghosts]_vars

C2_Witness ==
    /\ Len(initArgs) = 1
    /\ Len(ghosts) = 2
    /\ ghosts[1] = {"w1"}
    /\ ghosts[2] = {"w2"}
    /\ initArgs[1] = {"w2"}
    /\ mover.initialised
    /\ mover.seed = {"w2"}

----------------------------------------------------------------------------
(* C3 *)

\* C3: with an empty loaded ghost history the run never gets past the
\* initialise statement: initialise is not called at all, no step, move,
\* report or post-processing stage is invoked, and the run ends aborted.
C3_EmptyHistoryAborts ==
    ("ghosts" \in loaded /\ Len(ghosts) = 0) =>
        /\ initArgs = <<>>
        /\ \A o \in Operations : calls[o] = 0
        /\ stages = <<>>
        /\ ~mover.initialised
        /\ \/ pc = "aborted"
           \/ /\ pc \in {Script[k] : k \in 1..Index("initialise")}
              /\ failedAt = "none"
        /\ failedAt = "initialise" => error = "IndexError"

C3_Witness ==
    /\ "ghosts" \in loaded
    /\ Len(ghosts) = 0
    /\ pc = "aborted"
    /\ failedAt = "initialise"
    /\ error = "IndexError"

----------------------------------------------------------------------------
(* C4 *)

RestartApplied == ctx.applied = {"positions", "velocities", "box"}

InitialisedFirst ==
    /\ (\E o \in LoopOps : calls[o] > 0) =>
          /\ Len(initArgs) = 1
          /\ mover.initialised
    /\ Len(initArgs) > 0 => RestartApplied

\* C4 as stated: every run, however it ends, has called initialise exactly
\* once.
C4_Original ==
    /\ InitialisedFirst
    /\ Terminated => Len(initArgs) = 1

\* C4 as amended: initialise is called at most once in any run and exactly
\* once in every run that reaches the run loop or completes; that call comes
\* before every step, move and report call, which only run against an
\* initialised sampler; and it comes after setPositions, setVelocities and
\* setPeriodicBoxVectors have been applied to the context.
C4_Amended ==
    /\ InitialisedFirst
    /\ Len(initArgs) <= 1
    /\ calls["initialise"] = Len(initArgs)
    /\ (pc \in {"for", "step", "move", "report", "done"} \/ LoopLeft) =>
          Len(initArgs) = 1

C4_Witness ==
    /\ calls["move"] = 2
    /\ Len(initArgs) = 1
    /\ mover.initialised
    /\ RestartApplied

----------------------------------------------------------------------------
(* C5 *)

\* C5: once the restart state has been applied, the positions, velocities
\* and box vectors of the context are those of the restart file.
C5_RestartRoundTrip ==
    (pc = "initialise" /\ RestartApplied) =>
        /\ ctx.positions = rst7.positions
        /\ ctx.velocities = rst7.velocities
        /\ ctx.box = rst7.box

----------------------------------------------------------------------------
(* C6 *)

\* the number of the stage a post-processing statement calls
StageNo(stmt) ==
    CASE stmt = "shift" -> 1
      [] stmt = "recentre" -> 2
      [] stmt = "align" -> 3
      [] stmt = "write_sphere" -> 4
      [] stmt = "cluster" -> 5

\* C6: once a statement has failed the run is over: nothing further runs, the
\* failed operation has been invoked no more often than the script had
\* reached it, and nothing that follows it in the script has been invoked (a
\* failure in cycle i leaves the calls of cycle i + 1 and all stages unmade, a
\* failure in stage j leaves stage j + 1 unmade).
C6_FailFast ==
    failedAt # "none" =>
        /\ pc = "aborted"
        /\ ~ENABLED Next
        /\ Index(failedAt) < Index("initialise") =>
              \A o \in Operations : calls[o] = 0
        /\ failedAt = "initialise" =>
              /\ calls["initialise"] <= 1
              /\ \A o \in Operations \ {"initialise"} : calls[o] = 0
        /\ Index(failedAt) <= Index("for") =>
              \A o \in LoopOps \cup StageOps : calls[o] = 0
        /\ failedAt = "step" =>
              /\ calls["step"] = i
              /\ calls["move"] = i - 1
              /\ calls["report"] = i - 1
        /\ failedAt = "move" =>
              /\ calls["step"] = i
              /\ calls["move"] = i
              /\ calls["report"] = i - 1
        /\ failedAt = "report" =>
              /\ calls["step"] = i
              /\ calls["move"] = i
              /\ calls["report"] = i
        /\ failedAt \in LoopOps => \A o \in StageOps : calls[o] = 0
        /\ failedAt \in PostStatements =>
              /\ Len(stages) = StageNo(failedAt)
              /\ \A j \in 1..5 :
                    calls[StageOrder[j]] =
                        IF j <= StageNo(failedAt) THEN 1 ELSE 0
              /\ \A o \in LoopOps : calls[o] = NCycles

C6_Witness ==
    /\ failedAt = "move"
    /\ pc = "aborted"
    /\ i = 2
    /\ calls["step"] = 2
    /\ calls["report"] = 1

----------------------------------------------------------------------------
(* C7 *)

\* no statement fails unless a library call raises or the ghost history is
\* empty
NoErrorWhenWellFormed ==
    /\ pc = "aborted" <=> failedAt # "none"
    /\ failedAt # "none" =>
          \/ error = "fault"
          \/ /\ error = "IndexError"
             /\ failedAt = "initialise"
             /\ Len(ghosts) = 0

\* the run loop has run in full and the sampler has written its four files
RunComplete ==
    /\ \A o \in LoopOps : calls[o] = NCycles
    /\ ctx.mdSteps = NCycles * MDStepsPerCycle
    /\ mover.moves = NCycles * MovesPerCycle
    /\ \A f \in SamplerFiles : fs[f] = "sampler"
    /\ Len(stages) = 5

----------------------------------------------------------------------------
(* C8 *)

\* the stages run in the fixed order and only after the last report
StagesInOrder ==
    /\ \A j \in 1..Len(stages) : stages[j].stage = StageOrder[j]
    /\ Len(stages) <= 5
    /\ Len(stages) > 0 =>
          /\ i = NCycles
          /\ calls["report"] = NCycles
    /\ pc \in LoopOps \cup {"for"} => Len(stages) = 0

\* no file is written by two different statements, and no stage runs twice
NothingRewritten ==
    /\ \A w1 \in writes, w2 \in writes : w1[2] = w2[2] => w1[1] = w2[1]
    /\ \A o \in StageOps : calls[o] <= 1
    /\ \A j \in 1..Len(stages), k \in 1..Len(stages) :
          (j # k /\ stages[j].out # NoArtifact) =>
              stages[j].out # stages[k].out

\* stage j + 1 takes the output of stage j as its trajectory
Chained(j) ==
    (Len(stages) >= j + 1 /\ stages[j].out # NoArtifact) =>
        stages[j + 1].traj = stages[j].out

\* C8 as stated: every stage takes the output of the stage before it.
C8_Original ==
    /\ StagesInOrder
    /\ NothingRewritten
    /\ \A j \in 1..4 : Chained(j)

\* C8 as amended: the five stages run in the fixed order, only after the last
\* report; stages 1 to 3 form a chain (each takes the output of the one
\* before), while stage 4 and stage 5 both take the output of stage 3, the
\* aligned trajectory bpti-gcmc2.dcd, so stage 5 does not take the output of
\* stage 4; no artifact is written twice.
C8_Amended ==
    /\ StagesInOrder
    /\ NothingRewritten
    /\ \A j \in 1..3 : Chained(j)
    /\ Len(stages) >= 1 => stages[1].traj = File(mover.dcd)
    /\ Len(stages) >= 5 =>
          /\ stages[5].traj = stages[3].out
          /\ stages[5].traj # stages[4].out

C8_Witness ==
    /\ pc = "done"
    /\ Len(stages) = 5
    /\ stages[4].out = File("gcmc_sphere2.pdb")
    /\ stages[5].traj = File("bpti-gcmc2.dcd")

----------------------------------------------------------------------------
(* C9 *)

\* the loop is left after exactly 100 cycles, never earlier and never later,
\* with 100000 MD steps made and 10000 GCMC moves attempted
ExactlyNCycles ==
    /\ i <= NCycles
    /\ \A o \in LoopOps : calls[o] <= NCycles
    /\ LoopLeft =>
          /\ i = 100
          /\ \A o \in LoopOps : calls[o] = 100
          /\ ctx.mdSteps = 100000
          /\ mover.moves = 10000
    /\ (pc \in LoopOps \cup {"for"} /\ failedAt = "none") =>
          /\ ctx.mdSteps = calls["step"] * MDStepsPerCycle
          /\ mover.moves = calls["move"] * MovesPerCycle

----------------------------------------------------------------------------
(* C10 *)

\* C10: no input file is ever written; the files handed to the sampler and to
\* post-processing for writing are named apart from the inputs and from each
\* other (seven names in a finished run); and what post-processing reads
\* beside the topology was written in this run: shift_ghost_waters reads the
\* ghost file and the raw trajectory of this run's sampler, the later stages
\* read the aligned trajectory that align_traj wrote.
C10_InputsUntouched ==
    /\ \A w \in writes : w[2] \notin InputFiles
    /\ \A f \in InputFiles : fs[f] = "previous run"
    /\ \A w1 \in writes, w2 \in writes : w1[2] = w2[2] => w1[1] = w2[1]
    /\ pc = "done" =>
          /\ {w[2] : w \in writes} = AllFiles \ InputFiles
          /\ Cardinality({w[2] : w \in writes}) = 7
          /\ Cardinality({w[2] : w \in writes} \cup InputFiles) = 10
    /\ \A r \in reads :
          /\ (r[1] = "shift" /\ r[2] # TopologyFile) =>
                /\ r[2] \in {mover.ghostFile, mover.dcd}
                /\ fs[r[2]] = "sampler"
          /\ (r[1] \in {"write_sphere", "cluster"} /\ r[2] # TopologyFile) =>
                fs[r[2]] \in {"sampler", "align_traj"}
          /\ r[1] \in PostStatements => fs[r[2]] # "absent"
    /\ calls["shift_ghost_waters"] > 0 =>
          /\ <<"shift", mover.ghostFile>> \in reads
          /\ <<"shift", mover.dcd>> \in reads

C10_Witness ==
    /\ pc = "done"
    /\ <<"shift", "gcmc-ghost-wats2.txt">> \in reads
    /\ <<"shift", "bpti-raw2.dcd">> \in reads
    /\ fs["gcmc-ghost-wats2.txt"] = "sampler"
    /\ fs["gcmc-ghost-wats.txt"] = "previous run"
    /\ Cardinality(writes) = 7

====
